---- MODULE Spec2Model ----
(***************************************************************************)
(* gs-pypi, gs_pypi/pypi_db.py: the worker pool (Worker.run), the producer *)
(* and aggregator (PypiDBGenerator.generate_tree, parse_data), the detail  *)
(* page parser (parse_package_page) and the record normalizer              *)
(* (PypiDBGenerator.process_data).                                         *)
(*                                                                         *)
(* Strings that the code takes apart or concatenates (package names,       *)
(* versions, output labels) are sequences of one-character strings; every  *)
(* other string is an atom.  A Python dict is a function whose DOMAIN is   *)
(* its key set.                                                            *)
(***************************************************************************)
EXTENDS Integers, Sequences, FiniteSets, TLC

VARIABLES
    ppc,            \* position of the main process (producer / aggregator)
    first,          \* self.first
    index,          \* keys of data["index"] in parse_data
    data,           \* parse_data's data without "index": label -> PackageDetail
    task_queue,     \* JoinableQueue: jobs not yet taken
    unfinished,     \* JoinableQueue: count of unfinished tasks
    result_queue,   \* multiprocessing.Queue: results not yet received
    sent,           \* loop counter n of generate_tree's sentinel loop
    pkg_db,         \* add_package calls made so far, in order
    pc,             \* per worker: position in Worker.run
    uri,            \* per worker: local uri (the job taken last)
    attempts,       \* per worker: local attempts
    wdata,          \* per worker: local data (the result loaded last)
    submitted,      \* history: job -> number of task_queue.put calls
    consumed,       \* history: job -> number of task_done calls
    dropped,        \* history: jobs whose every attempt raised DownloadingError
    emitted,        \* history: job -> number of result_queue.put calls
    merged,         \* history: job -> number of data.update calls
    result_src,     \* history: the job behind each element of result_queue
    data_f,         \* parse_package_page: the document it is called on
    parsed          \* parse_package_page: <<>> before the call, then <<data>>

vars == <<ppc, first, index, data, task_queue, unfinished, result_queue, sent,
          pkg_db, pc, uri, attempts, wdata, submitted, consumed,
          dropped, emitted, merged, result_src, data_f, parsed>>

parseVars == <<data_f, parsed>>
prodVars == <<ppc, first, index, data, sent, pkg_db>>
workVars == <<pc, uri, attempts, wdata>>
histVars == <<submitted, consumed, dropped, emitted, merged, result_src>>

-----------------------------------------------------------------------------
(* Bounds and program constants *)

NumWorkers == 2
MaxJobs == 2
MaxAttempts == 100
MaxFiles == 2

\* children of an info list
MaxEntries == 2

\* characters of a version string
MaxVerLen == 3

\* entries of a Programming Language group
MaxLangs == 2

Workers == 1 .. NumWorkers

-----------------------------------------------------------------------------
(* Data *)

EmptyDict == [k \in {} |-> k]

\* (package, version) pairs the index page and the releases endpoint may
\* yield.  Two of them share one output label.
CandidatePairs ==
    { << <<"a">>, <<"1">> >>,
      << <<"a">>, <<"b", "-", "1">> >>,
      << <<"a", "-", "b">>, <<"1">> >> }

\* "output": package + "-" + version
Label(package, version) == package \o <<"-">> \o version

\* pkg_job of parse_data; the uri is kept as the pair it is built from
PkgJob(pair) == [uri |-> pair, output |-> Label(pair[1], pair[2])]

\* the sentinel job
None == [uri |-> <<>>, output |-> <<>>]

RealJobs == { PkgJob(p) : p \in CandidatePairs }
Jobs == RealJobs \cup {None}

SourceType == "\n    Source\n  "

File(url, md5, type) == [url |-> url, md5 |-> md5, type |-> type]

Detail(files, info) == [files |-> files, info |-> info]

\* data = {}; data["files"] = []; data["info"] = {}
EmptyDetail == Detail(<<>>, EmptyDict)

\* the detail page the remote catalog serves for a job: one that parses to a
\* source file, one that parses to a built file and a download link, and one
\* that the parser gives up on
PageOf(job) ==
    CASE job.uri[1] = <<"a">> /\ job.uri[2] = <<"1">> ->
            Detail(<< File("f1", "m1", SourceType) >>, EmptyDict)
      [] job.uri[1] = <<"a">> /\ job.uri[2] # <<"1">> ->
            Detail(<< File("f2", "m2", "wheel") >>, ("Download URL:" :> "d1"))
      [] OTHER -> EmptyDetail

\* rows of a detail page's file table
FileChoices ==
    { File("f1", "m1", SourceType),
      File("f2", "m2", SourceType),
      File("f3", "m3", "wheel") }

FileLists == UNION { [1 .. n -> FileChoices] : n \in 0 .. MaxFiles }

\* info blocks of a detail page; the link of a label may have an empty target
Infos ==
    { EmptyDict,
      ("Download URL:" :> "d1"),
      ("Download URL:" :> ""),
      ("Home Page:" :> "h1") }

\* what parse_package_page can return
Details == { Detail(fs, inf) : fs \in FileLists, inf \in Infos }

DigitChars == <<"0", "1", "2", "3", "4", "5", "6", "7", "8", "9">>

DigitSet == { DigitChars[i] : i \in 1 .. 10 }

\* a-z, as far as the strings here use it
LowerSet == {"a", "b", "p", "y", "t", "h", "o", "n", "e"}

\* allowed_ords_pkg: letters, digits, '+', '_', '-'
AllowedPkgChars == DigitSet \cup LowerSet \cup {"A", "+", "_", "-"}

\* package names of index entries
Packages == { <<"a">>, <<"a", ".", "b">>, <<"A", "_", "1">> }

VersionChars == {"1", ".", "a", "-"}

\* version strings of index entries
Versions ==
    UNION { [1 .. n -> VersionChars] : n \in 1 .. MaxVerLen }
    \cup { <<"1", ".", "2", ".", "3">>,
           <<"1", ".", "0", "-", "b", "e", "t", "a">> }

\* index entries whose names differ in a character the filter drops or
\* keeps, with versions inside and outside the grammar
IdentityPairs ==
    { <<package, version>> :
        package \in Packages \cup { <<"a", "b">> },
        version \in { <<"1">>, <<"1", ".", "1">>, <<"a">>, <<"1", "-", "1">> } }

\* entries of the Programming Language group: the ones process_data maps
\* and two it does not
LangEntries ==
    {"2", "3", "2.6", "2.7", "3.2", "3.3", "3.4", "3.5", "Python", "2.5"}

LangLists == UNION { [1 .. n -> LangEntries] : n \in 0 .. MaxLangs }

LicenseLists == { <<"MIT">>, <<"GPL-2", "MIT">>, <<>> }

\* data["info"] with and without a Categories block
CategoryInfos ==
    { EmptyDict, ("Categories" :> EmptyDict) }
    \cup { ("Categories" :> ("Programming Language" :> l)) : l \in LangLists }
    \cup { ("Categories" :> ("License" :> c)) : c \in LicenseLists }
    \cup { ("Categories" :> (("Programming Language" :> l) @@ ("License" :> c))) :
             l \in LangLists, c \in LicenseLists }

\* datetime.datetime.now() of the run considered
RunDates == { [year |-> 2015, month |-> 3, day |-> 7] }

\* how many leading attempts of one job raise DownloadingError
FailCounts == {0, MaxAttempts - 1, MaxAttempts}

-----------------------------------------------------------------------------
(* Worker.run *)

\* RetryLoop with "attempts <= 100" as the retry test
RECURSIVE RetryLoop_OffByOne(_, _, _)
RetryLoop_OffByOne(att, fails, last) ==
    LET a == att + 1 IN
    IF a <= fails
    THEN IF a <= MaxAttempts THEN RetryLoop_OffByOne(a, fails, last)
         ELSE [attempts |-> a, outcome |-> "fallthrough"]
    ELSE [attempts |-> a, outcome |-> last]

\* The inner retry loop for one job, run until it leaves the loop or reaches
\* a task_done call.  The first `fails` calls of load_remote_file raise
\* DownloadingError; the next call ends as `last` says ("ok": it returns,
\* "raise": it raises another exception).
RECURSIVE RetryLoop(_, _, _)
RetryLoop(att, fails, last) ==
    LET a == att + 1 IN
    IF a <= fails
    THEN IF a < MaxAttempts THEN RetryLoop(a, fails, last)
         ELSE IF a = MaxAttempts THEN [attempts |-> a, outcome |-> "exhausted"]
         ELSE [attempts |-> a, outcome |-> "fallthrough"]
    ELSE [attempts |-> a, outcome |-> last]

\* uri = self.task_queue.get(); attempts = 0
WGet(w) ==
    /\ pc[w] = "get"
    /\ task_queue # <<>>
    /\ uri' = [uri EXCEPT ![w] = Head(task_queue)]
    /\ task_queue' = Tail(task_queue)
    /\ IF Head(task_queue) = None
       THEN /\ pc' = [pc EXCEPT ![w] = "exit"]
            /\ UNCHANGED attempts
       ELSE /\ pc' = [pc EXCEPT ![w] = "fetch"]
            /\ attempts' = [attempts EXCEPT ![w] = 0]
    /\ UNCHANGED parseVars
    /\ UNCHANGED <<prodVars, unfinished, result_queue, wdata, histVars>>

\* sentinel: self.task_queue.task_done(); break
WExit(w) ==
    /\ pc[w] = "exit"
    /\ unfinished > 0
    /\ unfinished' = unfinished - 1
    /\ consumed' = [consumed EXCEPT ![uri[w]] = @ + 1]
    /\ pc' = [pc EXCEPT ![w] = "Done"]
    /\ UNCHANGED parseVars
    /\ UNCHANGED <<prodVars, task_queue, result_queue, uri, attempts, wdata,
                   submitted, dropped, emitted, merged, result_src>>

\* the retry loop up to its exit: load_remote_file returns at some attempt
\* or raises DownloadingError every time
WFetch(w) ==
    \E fails \in FailCounts :
        LET r == RetryLoop(attempts[w], fails, "ok") IN
        /\ pc[w] = "fetch"
        /\ attempts' = [attempts EXCEPT ![w] = r.attempts]
        /\ CASE r.outcome = "ok" ->
                  /\ wdata' = [wdata EXCEPT
                                  ![w] = (uri[w].output :> PageOf(uri[w]))]
                  /\ pc' = [pc EXCEPT ![w] = "task_done"]
                  /\ UNCHANGED dropped
             [] r.outcome = "exhausted" ->
                  /\ pc' = [pc EXCEPT ![w] = "exhausted"]
                  /\ dropped' = dropped \cup {uri[w]}
                  /\ UNCHANGED wdata
             [] r.outcome = "fallthrough" ->
                  /\ pc' = [pc EXCEPT ![w] = "task_done"]
                  /\ UNCHANGED <<wdata, dropped>>
        /\ UNCHANGED parseVars
        /\ UNCHANGED <<prodVars, task_queue, unfinished, result_queue, uri,
                       submitted, consumed, emitted, merged, result_src>>

\* the retry loop when load_remote_file raises an exception that is no
\* DownloadingError (IOError of URLopener.retrieve, a tarfile error, ...):
\* the exception leaves run() and the process ends
WFetchRaise(w) ==
    \E fails \in FailCounts \ {MaxAttempts} :
        LET r == RetryLoop(attempts[w], fails, "raise") IN
        /\ pc[w] = "fetch"
        /\ r.outcome = "raise"
        /\ attempts' = [attempts EXCEPT ![w] = r.attempts]
        /\ pc' = [pc EXCEPT ![w] = "dead"]
        /\ UNCHANGED parseVars
        /\ UNCHANGED <<prodVars, task_queue, unfinished, result_queue, uri,
                       wdata, histVars>>

\* WFailTaskDone without the break: control falls through to the success path
WFailTaskDone_NoBreak(w) ==
    /\ pc[w] = "exhausted"
    /\ unfinished > 0
    /\ unfinished' = unfinished - 1
    /\ consumed' = [consumed EXCEPT ![uri[w]] = @ + 1]
    /\ pc' = [pc EXCEPT ![w] = "task_done"]
    /\ UNCHANGED parseVars
    /\ UNCHANGED <<prodVars, task_queue, result_queue, uri, attempts, wdata,
                   submitted, dropped, emitted, merged, result_src>>

\* WFailTaskDone that goes on to the put of line 141
WFailTaskDone_ThenPut(w) ==
    /\ pc[w] = "exhausted"
    /\ unfinished > 0
    /\ unfinished' = unfinished - 1
    /\ consumed' = [consumed EXCEPT ![uri[w]] = @ + 1]
    /\ pc' = [pc EXCEPT ![w] = "put"]
    /\ UNCHANGED parseVars
    /\ UNCHANGED <<prodVars, task_queue, result_queue, uri,
                   attempts, wdata, submitted, dropped, emitted, merged,
                   result_src>>

\* WFailTaskDone without the task_done call
WFailTaskDone_NoMark(w) ==
    /\ pc[w] = "exhausted"
    /\ pc' = [pc EXCEPT ![w] = "get"]
    /\ UNCHANGED parseVars
    /\ UNCHANGED <<prodVars, task_queue, unfinished, result_queue, uri,
                   attempts, wdata, histVars>>

\* attempts == 100: self.task_queue.task_done(); break
WFailTaskDone(w) ==
    /\ pc[w] = "exhausted"
    /\ unfinished > 0
    /\ unfinished' = unfinished - 1
    /\ consumed' = [consumed EXCEPT ![uri[w]] = @ + 1]
    /\ pc' = [pc EXCEPT ![w] = "get"]
    /\ UNCHANGED parseVars
    /\ UNCHANGED <<prodVars, task_queue, result_queue, uri, attempts, wdata,
                   submitted, dropped, emitted, merged, result_src>>

\* WTaskDone with the result put before the job is marked
WTaskDone_Unmarked(w) ==
    /\ pc[w] = "task_done"
    /\ result_queue' = Append(result_queue, wdata[w])
    /\ result_src' = Append(result_src, uri[w])
    /\ emitted' = [emitted EXCEPT ![uri[w]] = @ + 1]
    /\ pc' = [pc EXCEPT ![w] = "get"]
    /\ UNCHANGED parseVars
    /\ UNCHANGED <<prodVars, task_queue, unfinished, uri, attempts, wdata,
                   submitted, consumed, dropped, merged>>

\* self.task_queue.task_done()
WTaskDone(w) ==
    /\ pc[w] = "task_done"
    /\ unfinished > 0
    /\ unfinished' = unfinished - 1
    /\ consumed' = [consumed EXCEPT ![uri[w]] = @ + 1]
    /\ pc' = [pc EXCEPT ![w] = "put"]
    /\ UNCHANGED parseVars
    /\ UNCHANGED <<prodVars, task_queue, result_queue, uri, attempts, wdata,
                   submitted, dropped, emitted, merged, result_src>>

\* WPut that merges the result into the aggregate map itself
WPut_MergesItself(w) ==
    /\ pc[w] = "put"
    /\ data' = wdata[w] @@ data
    /\ emitted' = [emitted EXCEPT ![uri[w]] = @ + 1]
    /\ merged' = [merged EXCEPT ![uri[w]] = @ + 1]
    /\ pc' = [pc EXCEPT ![w] = "get"]
    /\ UNCHANGED parseVars
    /\ UNCHANGED <<ppc, first, index, sent, pkg_db, task_queue,
                   unfinished, result_queue, uri, attempts, wdata, submitted,
                   consumed, dropped, result_src>>

\* self.result_queue.put(data); break
WPut(w) ==
    /\ pc[w] = "put"
    /\ result_queue' = Append(result_queue, wdata[w])
    /\ result_src' = Append(result_src, uri[w])
    /\ emitted' = [emitted EXCEPT ![uri[w]] = @ + 1]
    /\ pc' = [pc EXCEPT ![w] = "get"]
    /\ UNCHANGED parseVars
    /\ UNCHANGED <<prodVars, task_queue, unfinished, uri, attempts, wdata,
                   submitted, consumed, dropped, merged>>

-----------------------------------------------------------------------------
(* PypiDBGenerator.parse_data and generate_tree *)

\* one iteration of "for version in versions": index entry and job
Submit ==
    /\ ppc = "submit"
    /\ Cardinality(index) < MaxJobs
    /\ \E pair \in CandidatePairs \ index :
        /\ index' = index \cup {pair}
        /\ task_queue' = Append(task_queue, PkgJob(pair))
        /\ submitted' = [submitted EXCEPT ![PkgJob(pair)] = @ + 1]
    /\ unfinished' = unfinished + 1
    /\ UNCHANGED parseVars
    /\ UNCHANGED <<ppc, first, data, sent, pkg_db, result_queue,
                   workVars, consumed, dropped, emitted, merged,
                   result_src>>

\* the loop over the index page ends
EndSubmit ==
    /\ ppc = "submit"
    /\ ppc' = "join"
    /\ UNCHANGED parseVars
    /\ UNCHANGED <<first, index, data, sent, pkg_db, task_queue,
                   unfinished, result_queue, workVars, histVars>>

\* Join that does not wait for the unfinished count to reach zero
Join_NoWait ==
    /\ ppc = "join"
    /\ first' = FALSE
    /\ ppc' = "drain"
    /\ UNCHANGED parseVars
    /\ UNCHANGED <<index, data, sent, pkg_db, task_queue, unfinished,
                   result_queue, workVars, histVars>>

\* task_queue.join(); if self.first: time.sleep(5); self.first = False
Join ==
    /\ ppc = "join"
    /\ unfinished = 0
    /\ first' = FALSE
    /\ ppc' = "drain"
    /\ UNCHANGED parseVars
    /\ UNCHANGED <<index, data, sent, pkg_db, task_queue, unfinished,
                   result_queue, workVars, histVars>>

\* while result_queue.empty() is not True: ... ; return data
DrainCheck ==
    /\ ppc = "drain"
    /\ IF result_queue = <<>>
       THEN ppc' = "sentinels"
       ELSE ppc' = "drain_get"
    /\ UNCHANGED parseVars
    /\ UNCHANGED <<first, index, data, sent, pkg_db, task_queue, unfinished,
                   result_queue, workVars, histVars>>

\* data.update(result_queue.get())
DrainGet ==
    /\ ppc = "drain_get"
    /\ result_queue # <<>>
    /\ data' = Head(result_queue) @@ data
    /\ result_queue' = Tail(result_queue)
    /\ merged' = [merged EXCEPT ![Head(result_src)] = @ + 1]
    /\ result_src' = Tail(result_src)
    /\ ppc' = "drain"
    /\ UNCHANGED parseVars
    /\ UNCHANGED <<first, index, sent, pkg_db, task_queue, unfinished,
                   workVars, submitted, consumed, dropped, emitted>>

\* PutSentinel with one iteration too many
PutSentinel_OneTooMany ==
    /\ ppc = "sentinels"
    /\ IF sent <= NumWorkers
       THEN /\ task_queue' = Append(task_queue, None)
            /\ unfinished' = unfinished + 1
            /\ submitted' = [submitted EXCEPT ![None] = @ + 1]
            /\ sent' = sent + 1
            /\ UNCHANGED ppc
       ELSE /\ ppc' = "process_data"
            /\ UNCHANGED <<task_queue, unfinished, submitted, sent>>
    /\ UNCHANGED parseVars
    /\ UNCHANGED <<first, index, data, pkg_db, result_queue, workVars,
                   consumed, dropped, emitted, merged, result_src>>

\* for n in xrange(self.nproc): self.task_queue.put(None)
PutSentinel ==
    /\ ppc = "sentinels"
    /\ IF sent < NumWorkers
       THEN /\ task_queue' = Append(task_queue, None)
            /\ unfinished' = unfinished + 1
            /\ submitted' = [submitted EXCEPT ![None] = @ + 1]
            /\ sent' = sent + 1
            /\ UNCHANGED ppc
       ELSE /\ ppc' = "process_data"
            /\ UNCHANGED <<task_queue, unfinished, submitted, sent>>
    /\ UNCHANGED parseVars
    /\ UNCHANGED <<first, index, data, pkg_db, result_queue, workVars,
                   consumed, dropped, emitted, merged, result_src>>

-----------------------------------------------------------------------------
(* PypiDBGenerator.parse_package_page *)

\* the .string of an element that has none (Python None)
NoString == "<None>"

\* the .string of an <a> that has none, where a string is the list of its
\* " :: "-separated parts
NoParts == <<>>

\* an <a> element without an href attribute
NoHref == "<no href>"

\* <td>: its <a> descendants and its .string
Cell(a, string) == [a |-> a, string |-> string]

\* <a>: .string as the list .split(" :: ") yields; ["href"] is an atom in
\* the info list and, in a file row, the list .split("#") yields
Anchor(string, href) == [string |-> string, href |-> href]

\* a file row: five cells, the first links url#md5=<digest>
GoodRow(url, frag, type) ==
    << Cell(<< Anchor(NoParts, <<url, frag>>) >>, NoString),
       Cell(<<>>, type), Cell(<<>>, "py"), Cell(<<>>, "date"),
       Cell(<<>>, "size") >>

NoAnchorRow == << Cell(<<>>, "x"), Cell(<<>>, "y"), Cell(<<>>, "py"),
                  Cell(<<>>, "date"), Cell(<<>>, "size") >>

NoFragmentRow ==
    << Cell(<< Anchor(NoParts, <<"f9">>) >>, NoString),
       Cell(<<>>, SourceType), Cell(<<>>, "py"), Cell(<<>>, "date"),
       Cell(<<>>, "size") >>

ShortRow == << Cell(<< Anchor(NoParts, <<"f8", "md5=m8">>) >>, NoString),
               Cell(<<>>, SourceType) >>

\* a header or trailer row, which the walk slices off
EdgeRow == <<>>

\* <table class="list">: the .string of each <th>, and the <tr> rows
Table(th, tr) == [th |-> th, tr |-> tr]

\* child of the info <ul>: tag name, the .string of each <strong>, its <a>
\* elements, and the .string of each <span>
Entry(name, strong, a, span) ==
    [name |-> name, strong |-> strong, a |-> a, span |-> span]

Categories(anchors) == Entry("li", <<"Categories">>, anchors, <<>>)

\* the document: its class="list" tables and its class="nodot" lists, a list
\* being its .contents
Page(tables, uls) == [tables |-> tables, uls |-> uls]

EmptyPage == Page(<<>>, <<>>)

\* file_inf[MD5][4:] on the fragments that occur
Slice4(frag) ==
    CASE frag = "md5=m1" -> "m1"
      [] frag = "md5=m8" -> "m8"
      [] frag = "md5=" -> ""
      [] OTHER -> ""

\* "File" in table("th")[0].string
HasFile(string) == string \in {"File", "File Type"}

\* "Downloads (All Versions):" in uls[0]("strong")[0].string
IsDownloads(string) == string = "Downloads (All Versions):"

\* the outcome of a stretch of the walk: the data built so far, and whether
\* an exception left the stretch
Walked(raised, d) == [raised |-> raised, data |-> d]

\* one row of the file table (lines 312-338)
ParseRow(fields, d) ==
    IF Len(fields) < 1 \/ Len(fields[1].a) < 1
    THEN Walked(TRUE, d)
    ELSE LET file_inf == fields[1].a[1].href IN
         IF Len(file_inf) < 2 \/ Len(fields) < 5
         THEN Walked(TRUE, d)
         ELSE Walked(FALSE,
                 Detail(Append(d.files,
                               File(file_inf[1], Slice4(file_inf[2]),
                                    fields[2].string)),
                        d.info))

RECURSIVE ParseRows(_, _)
ParseRows(rows, d) ==
    IF rows = <<>> THEN Walked(FALSE, d)
    ELSE LET r == ParseRow(Head(rows), d) IN
         IF r.raised THEN r ELSE ParseRows(Tail(rows), r.data)

\* table("tr")[1:-1]
InnerRows(tr) == SubSeq(tr, 2, Len(tr) - 1)

\* for table in soup("table", class_="list")[-1:] (lines 307-330)
ParseTables(tables, d) ==
    IF tables = <<>> THEN Walked(FALSE, d)
    ELSE LET table == tables[Len(tables)] IN
         IF table.th = <<>> \/ table.th[1] = NoString THEN Walked(TRUE, d)
         ELSE IF ~HasFile(table.th[1]) THEN Walked(FALSE, d)
         ELSE ParseRows(InnerRows(table.tr), d)

\* for cat_entry in entry("a") (lines 357-362); cats is
\* data["info"]["Categories"]
RECURSIVE ParseCategories(_, _)
ParseCategories(anchors, cats) ==
    IF anchors = <<>> THEN Walked(FALSE, cats)
    ELSE LET cat_data == Head(anchors).string IN
         IF cat_data = NoParts THEN Walked(TRUE, cats)
         ELSE LET group == Head(cat_data)
                  new == IF group \notin DOMAIN cats
                         THEN Tail(cat_data)
                         ELSE cats[group] \o Tail(cat_data)
              IN ParseCategories(Tail(anchors),
                    (group :> new) @@ cats)

\* data["info"][key] = value
SetInfo(d, key, value) == Detail(d.files, (key :> value) @@ d.info)

\* one child of the info list (lines 349-372); decomposed tells that the
\* child was removed from ul.contents while the loop runs over that list
ParseEntry(entry, d) ==
    IF entry.name # "li"
    THEN [raised |-> FALSE, data |-> d, decomposed |-> FALSE]
    ELSE IF entry.strong = <<>>
    THEN [raised |-> TRUE, data |-> d, decomposed |-> FALSE]
    ELSE LET entry_name == entry.strong[1] IN
         IF entry_name \in {NoString, ""}
         THEN [raised |-> FALSE, data |-> d, decomposed |-> FALSE]
         ELSE IF entry_name = "Categories"
         THEN \* data["info"][entry_name] = {}, then the anchors
              LET r == ParseCategories(entry.a, EmptyDict) IN
              [raised |-> r.raised,
               data |-> SetInfo(d, entry_name, r.data),
               decomposed |-> FALSE]
         ELSE IF entry.span # <<>>
         THEN [raised |-> FALSE,
               data |-> SetInfo(d, entry_name, entry.span[1]),
               decomposed |-> FALSE]
         ELSE IF entry.a # <<>>
         THEN IF entry.a[1].href = NoHref
              THEN [raised |-> TRUE, data |-> d, decomposed |-> FALSE]
              ELSE [raised |-> FALSE,
                    data |-> SetInfo(d, entry_name, entry.a[1].href),
                    decomposed |-> FALSE]
         ELSE [raised |-> FALSE, data |-> d, decomposed |-> TRUE]

\* for entry in ul.contents: a decompose() shortens the list under the
\* loop, which then steps over the child that follows
RECURSIVE ParseEntries(_, _)
ParseEntries(contents, d) ==
    IF contents = <<>> THEN Walked(FALSE, d)
    ELSE LET r == ParseEntry(Head(contents), d)
             rest == Tail(contents)
         IN IF r.raised THEN Walked(TRUE, r.data)
            ELSE IF r.decomposed /\ rest # <<>>
            THEN ParseEntries(Tail(rest), r.data)
            ELSE ParseEntries(rest, r.data)

\* ul("strong"): the <strong> strings of all the children, in order
RECURSIVE Strongs(_)
Strongs(contents) ==
    IF contents = <<>> THEN <<>>
    ELSE (IF Head(contents).name = "li" THEN Head(contents).strong ELSE <<>>)
         \o Strongs(Tail(contents))

\* uls = soup("ul", class_="nodot"); if uls: ... (lines 341-373)
ParseLists(uls, d) ==
    IF uls = <<>> THEN Walked(FALSE, d)
    ELSE LET strong == Strongs(uls[1]) IN
         IF strong = <<>> \/ strong[1] = NoString THEN Walked(TRUE, d)
         ELSE IF IsDownloads(strong[1])
         THEN IF Len(uls) < 2 THEN Walked(TRUE, d)
              ELSE ParseEntries(uls[2], d)
         ELSE ParseEntries(uls[1], d)

\* the try block (lines 306-373)
Walk(page) ==
    LET t == ParseTables(page.tables, EmptyDetail) IN
    IF t.raised THEN t ELSE ParseLists(page.uls, t.data)

parse_package_page_KeepPartial(page) == Walk(page).data
\* try ... except Exception: data = empty (lines 306-380)
parse_package_page(page) ==
    LET r == Walk(page) IN IF r.raised THEN EmptyDetail ELSE r.data

\* children of an info list
EntryChoices ==
    { Categories(<< Anchor(<<"License", "GPL-2">>, "c1") >>),
      Categories(<< Anchor(<<"License", "MIT">>, "c2") >>),
      Categories(<< Anchor(<<"License", "BSD">>, "c3"),
                    Anchor(<<"Programming Language", "Python", "2.7">>, "c4"),
                    Anchor(<<"License", "MIT">>, "c2") >>),
      Categories(<< Anchor(NoParts, "c5") >>),
      Entry("li", <<"Home Page:">>, << Anchor(<<"h">>, "h1") >>, <<>>),
      Entry("li", <<"Download URL:">>, << Anchor(<<"d">>, NoHref) >>, <<>>),
      Entry("li", <<"Author:">>, <<>>, <<"x">>),
      Entry("li", <<"Summary">>, <<>>, <<>>),
      Entry("li", <<>>, <<>>, <<>>),
      Entry("text", <<>>, <<>>, <<>>) }

EntryLists == UNION { [1 .. n -> EntryChoices] : n \in 0 .. MaxEntries }

\* the list that precedes the info list on some pages
DownloadsUl ==
    << Entry("li", <<"Downloads (All Versions):">>, <<>>, <<"7">>) >>

UlChoices ==
    {<<>>, << DownloadsUl >>}
    \cup { << c >> : c \in EntryLists }
    \cup { << DownloadsUl, c >> : c \in EntryLists }

FileTable(rows) == Table(<<"File", "Type">>, <<EdgeRow>> \o rows \o <<EdgeRow>>)

TableChoices ==
    { <<>>,
      << FileTable(<< GoodRow("f1", "md5=m1", SourceType) >>) >>,
      << FileTable(<< GoodRow("f1", "md5=m1", SourceType), NoFragmentRow >>) >>,
      << FileTable(<< GoodRow("f1", "md5=m1", SourceType), ShortRow >>) >>,
      << FileTable(<< NoAnchorRow >>) >>,
      << FileTable(<<>>) >>,
      << Table(<<"Other">>, << EdgeRow, NoAnchorRow, EdgeRow >>) >>,
      << Table(<<>>, << EdgeRow, EdgeRow >>) >>,
      << Table(<<NoString>>, << EdgeRow, EdgeRow >>) >>,
      << FileTable(<< GoodRow("f1", "md5=m1", SourceType) >>),
         Table(<<"Other">>, << EdgeRow, EdgeRow >>) >> }

\* documents parse_package_page is called on
Pages == { Page(t, u) : t \in TableChoices, u \in UlChoices }

-----------------------------------------------------------------------------
(* PypiDBGenerator.process_data *)

\* for file_entry in pkg_data["files"]: the first entry of type Source, if any
RECURSIVE FirstSource(_)
FirstSource(files) ==
    IF files = <<>> THEN [url |-> "", md5 |-> ""]
    ELSE IF Head(files).type = SourceType
         THEN [url |-> Head(files).url, md5 |-> Head(files).md5]
         ELSE FirstSource(Tail(files))

\* download_url = ""; if info: if "Download URL:" in info: ...
DownloadUrl(info) ==
    IF "Download URL:" \in DOMAIN info THEN info["Download URL:"] ELSE ""

\* SourceUri that prefers the source file over the download link
SourceUri_FilesFirst(pkg_data) ==
    IF FirstSource(pkg_data.files).url # ""
    THEN FirstSource(pkg_data.files).url
    ELSE DownloadUrl(pkg_data.info)

\* if download_url: source_uri = download_url  else: source_uri = files_src_uri
SourceUri(pkg_data) ==
    IF DownloadUrl(pkg_data.info) # ""
    THEN DownloadUrl(pkg_data.info)
    ELSE FirstSource(pkg_data.files).url

\* the entry reaches add_package: its label is in data, its detail is not
\* empty and a source_uri was found
Emits(pair) ==
    LET pkg == Label(pair[1], pair[2]) IN
    /\ pkg \in DOMAIN data
    /\ ~ (data[pkg].files = <<>> /\ data[pkg].info = EmptyDict)
    /\ SourceUri(data[pkg]) # ""

\* the decimal digits of n, most significant first
RECURSIVE Digits(_)
Digits(n) ==
    IF n < 10 THEN << DigitChars[n + 1] >>
    ELSE Digits(n \div 10) \o << DigitChars[(n % 10) + 1] >>

\* "%0<width>d" % n
RECURSIVE ZeroPad(_, _)
ZeroPad(s, width) ==
    IF Len(s) >= width THEN s ELSE ZeroPad(<<"0">> \o s, width)

\* pseudoversion = "%04d%02d%02d" % (now.year, now.month, now.day)
Pseudoversion(now) ==
    ZeroPad(Digits(now.year), 4) \o ZeroPad(Digits(now.month), 2)
        \o ZeroPad(Digits(now.day), 2)

\* the tags one Programming Language entry adds (lines 456-472)
EntryTags(entry) ==
    IF entry = "2" THEN << <<"2", "_", "7">> >>
    ELSE IF entry = "3"
    THEN << <<"3", "_", "3">>, <<"3", "_", "4">>, <<"3", "_", "5">> >>
    ELSE IF entry = "2.6" THEN << <<"2", "_", "7">> >>
    ELSE IF entry = "2.7" THEN << <<"2", "_", "7">> >>
    ELSE IF entry = "3.2" THEN << <<"3", "_", "3">> >>
    ELSE IF entry = "3.3" THEN << <<"3", "_", "3">> >>
    ELSE IF entry = "3.4" THEN << <<"3", "_", "4">> >>
    ELSE IF entry = "3.5" THEN << <<"3", "_", "5">> >>
    ELSE <<>>

\* for entry in categories['Programming Language']: py_versions.extend(...)
RECURSIVE ExtendAll(_, _)
ExtendAll(entries, py_versions) ==
    IF entries = <<>> THEN py_versions
    ELSE ExtendAll(Tail(entries), py_versions \o EntryTags(Head(entries)))

\* categories = info["Categories"] if info has it, else {}
CategoriesOf(info) ==
    IF "Categories" \in DOMAIN info THEN info["Categories"] ELSE EmptyDict

\* py_versions after the category walk (lines 447-472)
PyVersions(info) ==
    IF "Programming Language" \in DOMAIN CategoriesOf(info)
    THEN ExtendAll(CategoriesOf(info)["Programming Language"], <<>>)
    ELSE <<>>

WithDefault_MissingTag(py_versions) ==
    IF py_versions = <<>>
    THEN << <<"2", "_", "7">>, <<"3", "_", "4">>, <<"3", "_", "5">> >>
    ELSE py_versions
\* if not py_versions: py_versions = ['2_7', '3_3', '3_4', '3_5']
WithDefault(py_versions) ==
    IF py_versions = <<>>
    THEN << <<"2", "_", "7">>, <<"3", "_", "3">>, <<"3", "_", "4">>,
            <<"3", "_", "5">> >>
    ELSE py_versions

\* for ver in py_versions[1:]: python_compat += ',' + ver
RECURSIVE AppendVersions(_, _)
AppendVersions(python_compat, vers) ==
    IF vers = <<>> THEN python_compat
    ELSE AppendVersions(python_compat \o <<",">> \o Head(vers), Tail(vers))

PythonCompat_Reversed(py_versions) ==
    IF Len(py_versions) = 1
    THEN <<"(", " ", "p", "y", "t", "h", "o", "n">> \o py_versions[1]
            \o <<" ", ")">>
    ELSE AppendVersions(<<"(", " ", "p", "y", "t", "h", "o", "n", "{">>
                            \o py_versions[Len(py_versions)],
                        [i \in 1 .. Len(py_versions) - 1 |->
                            py_versions[Len(py_versions) - i]])
            \o <<"}", " ", ")">>
\* python_compat (lines 482-488)
PythonCompat(py_versions) ==
    IF Len(py_versions) = 1
    THEN <<"(", " ", "p", "y", "t", "h", "o", "n">> \o py_versions[1]
            \o <<" ", ")">>
    ELSE AppendVersions(<<"(", " ", "p", "y", "t", "h", "o", "n", "{">>
                            \o py_versions[1],
                        Tail(py_versions))
            \o <<"}", " ", ")">>

\* "".join([x for x in package if ord(x) in allowed_ords_pkg])
RECURSIVE FilterPackage(_)
FilterPackage(package) ==
    IF package = <<>> THEN <<>>
    ELSE (IF Head(package) \in AllowedPkgChars THEN <<Head(package)>>
          ELSE <<>>)
         \o FilterPackage(Tail(package))

\* [0-9]+ at the start of s: the lengths of the prefixes it can match
DigitRuns(s) ==
    { n \in 1 .. Len(s) : \A i \in 1 .. n : s[i] \in DigitSet }

\* [0-9\.]+ at the start of s: the lengths of the prefixes it can match
DigitDotRuns(s) ==
    { n \in 1 .. Len(s) : \A i \in 1 .. n : s[i] \in DigitSet \cup {"."} }

\* [a-z]?$ on what is left of the string
OptLetterEnd(s) ==
    \/ s = <<>>
    \/ Len(s) = 1 /\ s[1] \in LowerSet

Rest(s, n) == SubSeq(s, n + 1, Len(s))

MatchVersion_FirstOnly(version) ==
    \E n \in DigitRuns(version) : OptLetterEnd(Rest(version, n))
\* re.match("(^[0-9]+[a-z]?$)|(^[0-9][0-9\.]+[0-9][a-z]?$)", version)
MatchVersion(version) ==
    \/ \E n \in DigitRuns(version) : OptLetterEnd(Rest(version, n))
    \/ /\ version # <<>>
       /\ version[1] \in DigitSet
       /\ \E n \in DigitDotRuns(Rest(version, 1)) :
             LET tail == Rest(version, n + 1) IN
             /\ tail # <<>>
             /\ tail[1] \in DigitSet
             /\ OptLetterEnd(Rest(tail, 1))

\* filtered_version (lines 492-496)
FilteredVersion(version, pseudoversion) ==
    IF MatchVersion(version) THEN version ELSE pseudoversion

\* categories["License"][-1] on an empty list: IndexError (line 476)
LicenseRaises(pair) ==
    LET categories == CategoriesOf(data[Label(pair[1], pair[2])].info) IN
    /\ "License" \in DOMAIN categories
    /\ categories["License"] = <<>>

\* the arguments of add_package for one entry: the fields of
\* Package(category, filtered_package, filtered_version) and those fields of
\* ebuild_data that depend on the detail
EbuildData(pair, pseudoversion) ==
    LET pkg_data == data[Label(pair[1], pair[2])] IN
    [category |-> "dev-python",
     package |-> FilterPackage(pair[1]),
     version |-> FilteredVersion(pair[2], pseudoversion),
     realname |-> pair[1],
     realversion |-> pair[2],
     source_uri |-> SourceUri(pkg_data),
     md5 |-> FirstSource(pkg_data.files).md5,
     python_compat |-> PythonCompat(WithDefault(PyVersions(pkg_data.info)))]

\* the loop "for (package, version), description in ...items()" over the
\* entries in the order `items`, add_package calls appended to db; the loop
\* ends early when an entry raises
RECURSIVE ProcessEntries(_, _, _)
ProcessEntries(items, db, pseudoversion) ==
    IF items = <<>> THEN [db |-> db, raised |-> FALSE]
    ELSE IF ~Emits(Head(items))
    THEN ProcessEntries(Tail(items), db, pseudoversion)
    ELSE IF LicenseRaises(Head(items))
    THEN [db |-> db, raised |-> TRUE]
    ELSE ProcessEntries(Tail(items),
                        Append(db, EbuildData(Head(items), pseudoversion)),
                        pseudoversion)

\* the orders in which a dict with these keys may be iterated
Orders(keys) ==
    { o \in [1 .. Cardinality(keys) -> keys] :
        \A i, k \in 1 .. Cardinality(keys) : o[i] = o[k] => i = k }

\* self.process_data(pkg_db, data, common_config, config), with any iteration
\* order of the index
ProcessData ==
    /\ ppc = "process_data"
    /\ \E items \in Orders(index), now \in RunDates :
          \E r \in { ProcessEntries(items, pkg_db, Pseudoversion(now)) } :
              /\ pkg_db' = r.db
              /\ ppc' = IF r.raised THEN "raised" ELSE "done"
    /\ UNCHANGED parseVars
    /\ UNCHANGED <<first, index, data, sent, task_queue, unfinished,
                   result_queue, workVars, histVars>>

-----------------------------------------------------------------------------

Init ==
    /\ ppc = "submit"
    /\ first = TRUE
    /\ index = {}
    /\ data = EmptyDict
    /\ task_queue = <<>>
    /\ unfinished = 0
    /\ result_queue = <<>>
    /\ sent = 0
    /\ pkg_db = <<>>
    /\ pc = [w \in Workers |-> "get"]
    /\ uri = [w \in Workers |-> None]
    /\ attempts = [w \in Workers |-> 0]
    /\ wdata = [w \in Workers |-> EmptyDict]
    /\ submitted = [j \in Jobs |-> 0]
    /\ consumed = [j \in Jobs |-> 0]
    /\ dropped = {}
    /\ emitted = [j \in Jobs |-> 0]
    /\ merged = [j \in Jobs |-> 0]
    /\ result_src = <<>>
    /\ data_f = EmptyPage
    /\ parsed = <<>>

Worker(w) ==
    \/ WGet(w)
    \/ WExit(w)
    \/ WFetch(w)
    \/ WFailTaskDone(w)
    \/ WTaskDone(w)
    \/ WPut(w)

Producer ==
    \/ Submit
    \/ EndSubmit
    \/ Join
    \/ DrainCheck
    \/ DrainGet
    \/ PutSentinel
    \/ ProcessData

Next ==
    \/ Producer
    \/ \E w \in Workers : Worker(w)

Spec == Init /\ [][Next]_vars

\* every process that can take a step eventually takes one
FairSpec ==
    /\ Spec
    /\ WF_vars(Producer)
    /\ \A w \in Workers : WF_vars(Worker(w))

\* process_data alone, over every aggregate the drain can leave behind for an
\* index of at most MaxJobs entries: all workers have exited
\* the state in which process_data starts, the download stage having left
\* the index idx and the aggregate map dat
NormState(idx, dat) ==
    /\ ppc = "process_data"
    /\ first = FALSE
    /\ index = idx
    /\ data = dat
    /\ task_queue = <<>>
    /\ unfinished = 0
    /\ result_queue = <<>>
    /\ sent = NumWorkers
    /\ pkg_db = <<>>
    /\ pc = [w \in Workers |-> "Done"]
    /\ uri = [w \in Workers |-> None]
    /\ attempts = [w \in Workers |-> 0]
    /\ wdata = [w \in Workers |-> EmptyDict]
    /\ submitted = [j \in Jobs |->
                      IF j = None THEN NumWorkers
                      ELSE IF j.uri \in idx THEN 1 ELSE 0]
    /\ consumed = submitted
    /\ dropped = { j \in RealJobs : j.uri \in idx /\ j.output \notin DOMAIN dat }
    /\ emitted = [j \in Jobs |->
                    IF j # None /\ j.uri \in idx /\ j.output \in DOMAIN dat
                    THEN 1 ELSE 0]
    /\ merged = emitted
    /\ result_src = <<>>
    /\ data_f = EmptyPage
    /\ parsed = <<>>

NormInit ==
    \E idx \in { S \in SUBSET CandidatePairs :
                    Cardinality(S) >= 1 /\ Cardinality(S) <= MaxJobs } :
        \E dat \in UNION { [L -> Details] :
                           L \in SUBSET { Label(p[1], p[2]) : p \in idx } } :
            NormState(idx, dat)

NormNext == ProcessData

NormSpec == NormInit /\ [][NormNext]_vars

\* process_data on one index entry: any of the version strings with a detail
\* that has a source file, or any of the category blocks
RecordInit ==
    \/ \E package \in Packages, version \in Versions :
          NormState({ <<package, version>> },
                    Label(package, version) :>
                        Detail(<< File("f1", "m1", SourceType) >>, EmptyDict))
    \/ \E info \in CategoryInfos :
          NormState({ << <<"a">>, <<"1">> >> },
                    Label(<<"a">>, <<"1">>) :>
                        Detail(<< File("f1", "m1", SourceType) >>, info))

RecordSpec == RecordInit /\ [][NormNext]_vars

\* process_data on two index entries, each with a detail that has a source
\* file
IdentityInit ==
    \E p, q \in IdentityPairs :
        /\ p # q
        /\ NormState({p, q},
                     (Label(p[1], p[2]) :>
                         Detail(<< File("f1", "m1", SourceType) >>, EmptyDict))
                     @@ (Label(q[1], q[2]) :>
                         Detail(<< File("f2", "m2", SourceType) >>, EmptyDict)))

IdentitySpec == IdentityInit /\ [][NormNext]_vars

\* the run when load_remote_file may also raise other exceptions
NextErr ==
    \/ Next
    \/ \E w \in Workers : WFetchRaise(w)

ErrSpec == Init /\ [][NextErr]_vars

FairErrSpec ==
    /\ ErrSpec
    /\ WF_vars(Producer)
    /\ \A w \in Workers : WF_vars(Worker(w) \/ WFetchRaise(w))

\* parse_package_page on its own: one call on any of the documents
ParsePackagePage ==
    /\ parsed = <<>>
    /\ parsed' = << parse_package_page(data_f) >>
    /\ UNCHANGED <<data_f, prodVars, task_queue, unfinished, result_queue,
                   workVars, histVars>>

ParseInit ==
    /\ data_f \in Pages
    /\ parsed = <<>>
    /\ ppc = "submit"
    /\ first = TRUE
    /\ index = {}
    /\ data = EmptyDict
    /\ task_queue = <<>>
    /\ unfinished = 0
    /\ result_queue = <<>>
    /\ sent = 0
    /\ pkg_db = <<>>
    /\ pc = [w \in Workers |-> "get"]
    /\ uri = [w \in Workers |-> None]
    /\ attempts = [w \in Workers |-> 0]
    /\ wdata = [w \in Workers |-> EmptyDict]
    /\ submitted = [j \in Jobs |-> 0]
    /\ consumed = [j \in Jobs |-> 0]
    /\ dropped = {}
    /\ emitted = [j \in Jobs |-> 0]
    /\ merged = [j \in Jobs |-> 0]
    /\ result_src = <<>>

ParseNext == ParsePackagePage

ParseSpec == ParseInit /\ [][ParseNext]_vars

-----------------------------------------------------------------------------
(* Properties *)

\* the sum of the values of a counter
Sum(f) ==
    LET RECURSIVE S(_)
        S(D) == IF D = {} THEN 0
                ELSE LET x == CHOOSE y \in D : TRUE IN f[x] + S(D \ {x})
    IN S(DOMAIN f)

AllDone == \A w \in Workers : pc[w] = "Done"

\* the worker has taken a job and not yet marked it consumed
Holding(w) == pc[w] \in {"fetch", "exhausted", "task_done", "exit"}

IndexJobs == { PkgJob(p) : p \in index }

\* the producer has left parse_data's drain loop
Drained == ppc \in {"sentinels", "process_data", "done"}

\* C1: every job taken from the job queue is marked consumed exactly once by
\* the worker that took it: no job is marked more often than it was
\* submitted, every submitted job is in the queue, held by one worker or
\* marked, and once all workers are Done the marks number N + W.
C1_EveryJobConsumedOnce ==
    /\ \A j \in Jobs : consumed[j] <= submitted[j]
    /\ \A j \in RealJobs : consumed[j] <= 1
    /\ Sum(consumed) + Cardinality({ w \in Workers : Holding(w) })
          + Len(task_queue) = Sum(submitted)
    /\ unfinished = Sum(submitted) - Sum(consumed)
    /\ AllDone =>
          /\ Sum(consumed) = Cardinality(index) + NumWorkers
          /\ \A j \in IndexJobs : consumed[j] = 1

C1_Witness ==
    /\ AllDone
    /\ Cardinality(index) = 2
    /\ dropped # {}
    /\ \E j \in IndexJobs : emitted[j] = 1

\* C2: when the drain loop has ended, every real job whose fetch succeeded
\* has had its result merged into the aggregate map.
C2_AllResultsMerged ==
    Drained => \A j \in IndexJobs : j \notin dropped => merged[j] >= 1

\* C3: a job whose every attempt raises DownloadingError is attempted exactly
\* 100 times, is marked consumed exactly once and puts no result; the worker
\* is then back at taking the next job.
C3_ExhaustedJob ==
    /\ \A w \in Workers : attempts[w] <= MaxAttempts
    /\ \A w \in Workers :
          pc[w] = "exhausted" => uri[w] \in dropped /\ consumed[uri[w]] = 0
    /\ \A w \in Workers :
          uri[w] \in dropped =>
             /\ attempts[w] = MaxAttempts
             /\ pc[w] \in {"exhausted", "get"}
    /\ \A j \in dropped :
          /\ emitted[j] = 0
          /\ merged[j] = 0
          /\ \/ consumed[j] = 1
             \/ consumed[j] = 0 /\ \E w \in Workers :
                                      pc[w] = "exhausted" /\ uri[w] = j

C3_Witness ==
    \E w \in Workers :
        /\ uri[w] \in dropped
        /\ pc[w] = "get"
        /\ consumed[uri[w]] = 1
        /\ attempts[w] = MaxAttempts

\* C4: under fair scheduling the run terminates: the wait for queue-drained
\* returns, the drain loop ends, the sentinels are enqueued and every worker
\* reaches Done.
C4_RunTerminates ==
    <>(AllDone /\ sent = NumWorkers /\ ppc \in {"process_data", "done"})

C4_Witness ==
    /\ AllDone
    /\ ppc = "done"
    /\ dropped # {}
    /\ Cardinality(index) = 2

\* C5: whatever fails inside a job's fetch step, the job is still eventually
\* marked consumed and the wait for queue-drained eventually returns.
C5_NoFailureIsFatal ==
    /\ \A j \in RealJobs : (submitted[j] > 0) ~> (consumed[j] > 0)
    /\ <>(ppc \notin {"submit", "join"})

C7_ResultAfterConsumed ==
    /\ \A j \in RealJobs : emitted[j] + merged[j] > 0 => consumed[j] >= 1
    /\ \A i \in 1 .. Len(result_src) : consumed[result_src[i]] >= 1
    /\ \A l \in DOMAIN data :
          \E j \in IndexJobs : j.output = l /\ consumed[j] >= 1

C7_Witness ==
    /\ result_queue # <<>>
    /\ data # EmptyDict

\* C8: exactly one sentinel per worker is enqueued, and only after all real
\* jobs are submitted; a worker that takes a sentinel marks it and is Done
\* for good, so no worker is Done while a real job is unconsumed.
C8_SentinelProtocol ==
    /\ [](/\ submitted[None] = sent
          /\ sent <= NumWorkers
          /\ ppc \in {"process_data", "done"} => sent = NumWorkers
          /\ sent > 0 => /\ ppc \in {"sentinels", "process_data", "done"}
                         /\ \A j \in IndexJobs : submitted[j] = 1
          /\ consumed[None] = Cardinality({ w \in Workers : pc[w] = "Done" })
          /\ submitted[None] =
                consumed[None]
                + Cardinality({ w \in Workers : pc[w] = "exit" })
                + Cardinality({ i \in 1 .. Len(task_queue) :
                                  task_queue[i] = None })
          /\ \A w \in Workers :
                pc[w] = "Done" =>
                   /\ ppc # "submit"
                   /\ \A j \in IndexJobs : consumed[j] = 1)
    /\ [][\A w \in Workers :
             pc[w] = "Done" => pc'[w] = "Done" /\ uri'[w] = uri[w]]_vars

C8_Witness ==
    /\ AllDone
    /\ consumed[None] = NumWorkers
    /\ Cardinality(index) = 2

\* number of data.update calls that wrote the key of this index entry
MergesUnder(pair) ==
    Sum([j \in { k \in RealJobs : k.output = Label(pair[1], pair[2]) }
            |-> merged[j]])

\* C9: every discovered (package, version) pair has at most one entry in the
\* aggregate map, and that entry is merged at most once.
C9_OneEntryPerPair ==
    \A pair \in index :
        /\ Cardinality({ l \in DOMAIN data : l = Label(pair[1], pair[2]) }) <= 1
        /\ MergesUnder(pair) <= 1

\* the records add_package received for an index entry
RecordsOf(pair) ==
    { i \in 1 .. Len(pkg_db) :
        pkg_db[i].realname = pair[1] /\ pkg_db[i].realversion = pair[2] }

\* positions of the source-type rows of a file table
SourceRows(files) == { i \in 1 .. Len(files) : files[i].type = SourceType }

\* source_uri as the claim words it; "" stands for no value
ClaimedSourceUri(d) ==
    IF "Download URL:" \in DOMAIN d.info /\ d.info["Download URL:"] # ""
    THEN d.info["Download URL:"]
    ELSE IF SourceRows(d.files) # {}
         THEN d.files[CHOOSE i \in SourceRows(d.files) :
                         \A k \in SourceRows(d.files) : i <= k].url
         ELSE ""

\* C10: after the pass, for an entry with a non-empty PackageDetail the record's
\* source_uri is the Download URL value when there is one, else the URL of
\* the first source-type file, else there is no record; an entry with empty
\* files and info has no record either.  (A Download URL label with an empty
\* value counts as no value.)
C10_SourceUriSelection ==
    ppc = "done" => \A pair \in index :
        LET pkg == Label(pair[1], pair[2]) IN
        IF pkg \in DOMAIN data /\ data[pkg] # EmptyDetail
               /\ ClaimedSourceUri(data[pkg]) # ""
        THEN /\ Cardinality(RecordsOf(pair)) = 1
             /\ \A i \in RecordsOf(pair) :
                   pkg_db[i].source_uri = ClaimedSourceUri(data[pkg])
        ELSE RecordsOf(pair) = {}

C10_Witness ==
    \E pair \in index :
        LET pkg == Label(pair[1], pair[2]) IN
        /\ ppc = "done"
        /\ pkg \in DOMAIN data
        /\ "Download URL:" \in DOMAIN data[pkg].info
        /\ data[pkg].info["Download URL:"] # ""
        /\ SourceRows(data[pkg].files) # {}
        /\ \E i \in RecordsOf(pair) :
              pkg_db[i].source_uri = data[pkg].info["Download URL:"]

\* the list of the page whose children the parser reads
InfoList(page) ==
    IF Len(page.uls) >= 2 /\ page.uls[1] = DownloadsUl
    THEN page.uls[2] ELSE page.uls[1]

\* the values the anchors of a Categories entry carry for a group, in order
RECURSIVE AnchorValues(_, _)
AnchorValues(anchors, group) ==
    IF anchors = <<>> THEN <<>>
    ELSE (IF Head(Head(anchors).string) = group
          THEN Tail(Head(anchors).string) ELSE <<>>)
         \o AnchorValues(Tail(anchors), group)

\* the values a page carries for a group, over all its entries, in order
RECURSIVE SeenValues(_, _)
SeenValues(contents, group) ==
    IF contents = <<>> THEN <<>>
    ELSE AnchorValues(Head(contents).a, group)
         \o SeenValues(Tail(contents), group)

WellFormedCategories(e) ==
    /\ e.name = "li"
    /\ e.strong = <<"Categories">>
    /\ \A i \in 1 .. Len(e.a) : e.a[i].string # NoParts

OnlyCategories(page) ==
    /\ page.uls # <<>>
    /\ InfoList(page) # <<>>
    /\ \A i \in 1 .. Len(InfoList(page)) :
          WellFormedCategories(InfoList(page)[i])

\* C12: on a page whose info list holds only Categories entries, every
\* category group ends up with all the values the page carries for it, in the
\* order seen; a later entry does not discard what an earlier one gave.
C12_CategoriesAppend ==
    (/\ parsed # <<>>
     /\ OnlyCategories(data_f)
     /\ "Categories" \in DOMAIN parsed[1].info)
    => \A g \in {"License", "Programming Language"} :
          LET seen == SeenValues(InfoList(data_f), g)
              cats == parsed[1].info["Categories"]
          IN seen # <<>> => g \in DOMAIN cats /\ cats[g] = seen

MalformedRows == {NoAnchorRow, NoFragmentRow, ShortRow}

\* the file table makes the walk raise
BadTable(page) ==
    /\ page.tables # <<>>
    /\ LET t == page.tables[Len(page.tables)] IN
       \/ t.th = <<>>
       \/ t.th[1] = NoString
       \/ /\ HasFile(t.th[1])
          /\ \E i \in 2 .. Len(t.tr) - 1 : t.tr[i] \in MalformedRows

\* a child the loop removes from the list it runs over
Plain(e) ==
    /\ e.name = "li"
    /\ e.strong # <<>>
    /\ e.strong[1] \notin {"", NoString, "Categories"}
    /\ e.span = <<>>
    /\ e.a = <<>>

BadEntry(e) ==
    /\ e.name = "li"
    /\ \/ e.strong = <<>>
       \/ /\ e.strong[1] = "Categories"
          /\ \E i \in 1 .. Len(e.a) : e.a[i].string = NoParts
       \/ /\ e.strong[1] \notin {"", NoString, "Categories"}
          /\ e.span = <<>>
          /\ e.a # <<>>
          /\ e.a[1].href = NoHref

\* the info list makes the walk raise
BadList(page) ==
    /\ page.uls # <<>>
    /\ \/ page.uls[1] = <<>>
       \/ \A i \in 1 .. Len(page.uls[1]) : page.uls[1][i].strong = <<>>
       \/ page.uls = << DownloadsUl >>
       \/ \E i \in 1 .. Len(InfoList(page)) :
             /\ BadEntry(InfoList(page)[i])
             /\ \A j \in 1 .. i - 1 : ~Plain(InfoList(page)[j])

\* C13: when the walk over the file table or the info list raises, the
\* parser returns the empty detail, files empty and info empty.
C13_ExceptionGivesEmptyDetail ==
    (parsed # <<>> /\ (BadTable(data_f) \/ BadList(data_f)))
    => parsed[1] = EmptyDetail

\* a page with a good file row and a good Categories entry, followed by a
\* child without a label, has been parsed to the empty detail
C13_Witness ==
    /\ parsed = << EmptyDetail >>
    /\ ~BadTable(data_f)
    /\ data_f.tables # <<>>
    /\ data_f.tables[1].tr[2] = GoodRow("f1", "md5=m1", SourceType)
    /\ Len(data_f.uls) = 1
    /\ Len(data_f.uls[1]) = 2
    /\ WellFormedCategories(data_f.uls[1][1])
    /\ data_f.uls[1][2].strong = <<>>
    /\ data_f.uls[1][2].name = "li"

\* C11: after the pass, the md5 of every record is empty or is the md5 of a
\* source-type file located at the record's source_uri, and a record whose
\* source_uri is the Download URL value comes from a detail without any
\* source-type file.
C11_HashOfTheSourceUsed ==
    ppc = "done" => \A i \in DOMAIN pkg_db :
        LET d == data[Label(pkg_db[i].realname, pkg_db[i].realversion)] IN
        /\ \/ pkg_db[i].md5 = ""
           \/ \E k \in SourceRows(d.files) :
                 /\ d.files[k].url = pkg_db[i].source_uri
                 /\ d.files[k].md5 = pkg_db[i].md5
        /\ ("Download URL:" \in DOMAIN d.info
              /\ pkg_db[i].source_uri = d.info["Download URL:"])
           => SourceRows(d.files) = {}

\* the Programming Language entries of a detail's info block
LangOf(info) ==
    IF "Categories" \in DOMAIN info
          /\ "Programming Language" \in DOMAIN info["Categories"]
    THEN info["Categories"]["Programming Language"]
    ELSE <<>>

\* the detail a record was built from
DetailOf(rec) == data[Label(rec.realname, rec.realversion)]

T27 == <<"2", "_", "7">>
T33 == <<"3", "_", "3">>
T34 == <<"3", "_", "4">>
T35 == <<"3", "_", "5">>
AllTags == {T27, T33, T34, T35}

\* the table from a Programming Language entry to runtime tags
TagTable(e) ==
    CASE e \in {"2", "2.6", "2.7"} -> <<T27>>
      [] e = "3" -> <<T33, T34, T35>>
      [] e \in {"3.2", "3.3"} -> <<T33>>
      [] e = "3.4" -> <<T34>>
      [] e = "3.5" -> <<T35>>
      [] OTHER -> <<>>

\* the tags the entries produce, one after the other
RECURSIVE Produced(_)
Produced(entries) ==
    IF entries = <<>> THEN <<>>
    ELSE TagTable(Head(entries)) \o Produced(Tail(entries))

\* a list without the repeats of its elements, in first-seen order
RECURSIVE FirstSeen(_)
FirstSeen(s) ==
    IF s = <<>> THEN <<>>
    ELSE LET f == FirstSeen(SubSeq(s, 1, Len(s) - 1)) IN
         IF \E i \in 1 .. Len(f) : f[i] = s[Len(s)] THEN f
         ELSE Append(f, s[Len(s)])

\* how often the string t occurs in the string s
Occurs(t, s) ==
    Cardinality({ i \in 1 .. Len(s) - Len(t) + 1 :
                    SubSeq(s, i, i + Len(t) - 1) = t })

RECURSIVE JoinComma(_)
JoinComma(tags) ==
    IF Len(tags) = 1 THEN tags[1]
    ELSE tags[1] \o <<",">> \o JoinComma(Tail(tags))

\* C14: after the pass every record's compatibility expression names at
\* least one runtime tag, and when no Programming Language entry maps to a
\* tag (or there is none) it names each of 2_7, 3_3, 3_4, 3_5 once and nothing
\* more.
C14_AtLeastOneTag ==
    ppc = "done" => \A i \in DOMAIN pkg_db :
        LET compat == pkg_db[i].python_compat IN
        /\ \E t \in AllTags : Occurs(t, compat) >= 1
        /\ Produced(LangOf(DetailOf(pkg_db[i]).info)) = <<>>
           => /\ \A t \in AllTags : Occurs(t, compat) = 1
              /\ Occurs(<<",">>, compat) = 3

\* a record was emitted for a detail whose entries are there but map to no tag
C14_Witness ==
    /\ ppc = "done"
    /\ pkg_db # <<>>
    /\ LangOf(DetailOf(pkg_db[1]).info) = <<"Python", "2.5">>
    /\ Occurs(T33, pkg_db[1].python_compat) = 1

\* C15 as stated: one tag renders as (pythonTAG), several as
\* (python{tag1,tag2,...}) in first-seen order, without blanks.
C15_RenderingAsStated ==
    ppc = "done" => \A i \in DOMAIN pkg_db :
        LET tags == FirstSeen(Produced(LangOf(DetailOf(pkg_db[i]).info))) IN
        tags # <<>> =>
            pkg_db[i].python_compat =
                IF Len(tags) = 1
                THEN <<"(", "p", "y", "t", "h", "o", "n">> \o tags[1] \o <<")">>
                ELSE <<"(", "p", "y", "t", "h", "o", "n", "{">>
                        \o JoinComma(tags) \o <<"}", ")">>

\* C15: the expression is "( python" TAG " )" for a tag list of one element
\* and "( python{" tag1,tag2,... "} )" for a longer one, the tags standing in
\* the order in which the entries produce them, each as often as it is
\* produced; for the entries "2", "3.4" it is ( python{2_7,3_4} ).
C15_Rendering ==
    ppc = "done" => \A i \in DOMAIN pkg_db :
        LET entries == LangOf(DetailOf(pkg_db[i]).info)
            tags == Produced(entries)
        IN /\ tags # <<>> =>
                pkg_db[i].python_compat =
                    IF Len(tags) = 1
                    THEN <<"(", " ", "p", "y", "t", "h", "o", "n">> \o tags[1]
                            \o <<" ", ")">>
                    ELSE <<"(", " ", "p", "y", "t", "h", "o", "n", "{">>
                            \o JoinComma(tags) \o <<"}", " ", ")">>
           /\ entries = <<"2", "3.4">> =>
                pkg_db[i].python_compat =
                    <<"(", " ", "p", "y", "t", "h", "o", "n", "{", "2", "_",
                      "7", ",", "3", "_", "4", "}", " ", ")">>

C15_Witness ==
    /\ ppc = "done"
    /\ pkg_db # <<>>
    /\ LangOf(DetailOf(pkg_db[1]).info) = <<"2", "3.4">>
    /\ pkg_db[1].python_compat =
          <<"(", " ", "p", "y", "t", "h", "o", "n", "{"
            >> \o T27 \o <<",">> \o T34 \o <<"}", " ", ")">>

\* the grammar ^[0-9]+[a-z]?$ | ^[0-9][0-9.]+[0-9][a-z]?$, on the string
\* without its optional last letter
Core(v) ==
    IF v # <<>> /\ v[Len(v)] \in LowerSet THEN SubSeq(v, 1, Len(v) - 1) ELSE v

InGrammar(v) ==
    LET c == Core(v) IN
    /\ c # <<>>
    /\ c[1] \in DigitSet
    /\ c[Len(c)] \in DigitSet
    /\ \/ \A i \in 1 .. Len(c) : c[i] \in DigitSet
       \/ /\ Len(c) >= 3
          /\ \A i \in 2 .. Len(c) - 1 : c[i] \in DigitSet \cup {"."}

\* YYYYMMDD of the run date
DateStrings == { <<"2", "0", "1", "5", "0", "3", "0", "7">> }

\* C16: after the pass the version of a record's identity is the version
\* string itself exactly when that string is in the grammar, and is the
\* YYYYMMDD of the run date otherwise; 1.2.3 is kept, 1.0-beta is replaced.
C16_VersionGrammar ==
    ppc = "done" => \A i \in DOMAIN pkg_db :
        LET v == pkg_db[i].realversion IN
        /\ InGrammar(v) <=> pkg_db[i].version = v
        /\ ~InGrammar(v) => pkg_db[i].version \in DateStrings
        /\ v = <<"1", ".", "2", ".", "3">> => pkg_db[i].version = v
        /\ v = <<"1", ".", "0", "-", "b", "e", "t", "a">>
              => pkg_db[i].version \in DateStrings

C16_Witness ==
    /\ ppc = "done"
    /\ pkg_db # <<>>
    /\ pkg_db[1].realversion = <<"1", ".", "0", "-", "b", "e", "t", "a">>
    /\ pkg_db[1].version = <<"2", "0", "1", "5", "0", "3", "0", "7">>

\* C19: after the pass no runtime tag occurs twice in a record's
\* compatibility expression, and when all the tags produced are one and the
\* same the expression has the single-tag form, without braces.
C19_TagsFormASet ==
    ppc = "done" => \A i \in DOMAIN pkg_db :
        LET tags == Produced(LangOf(DetailOf(pkg_db[i]).info)) IN
        /\ \A t \in AllTags : Occurs(t, pkg_db[i].python_compat) <= 1
        /\ Cardinality({ tags[k] : k \in 1 .. Len(tags) }) = 1
           => Occurs(<<"{">>, pkg_db[i].python_compat) = 0

\* C17: the aggregate map changes only in the drain loop of the producer,
\* after join() has returned, every submitted real job being marked consumed;
\* a step of a worker leaves the aggregate map, the index and the records
\* alone, and changes the shared state by one task_done at most and by one
\* element appended to the result queue at most.
C17_OnlyAggregatorWrites ==
    [][ /\ data' # data =>
             /\ ppc = "drain_get"
             /\ pc' = pc
             /\ \A j \in IndexJobs : consumed[j] >= 1
        /\ pc' # pc =>
             /\ data' = data
             /\ index' = index
             /\ pkg_db' = pkg_db
             /\ unfinished' \in {unfinished, unfinished - 1}
             /\ \/ result_queue' = result_queue
                \/ /\ Len(result_queue') = Len(result_queue) + 1
                   /\ SubSeq(result_queue', 1, Len(result_queue))
                         = result_queue ]_vars

\* the whole run is over and a result was merged on the way
C17_Witness ==
    /\ ppc = "done"
    /\ data # EmptyDict
    /\ \A w \in Workers : pc[w] = "Done"

\* C18: at most one result is ever put for a real job; a job that was marked
\* consumed without being dropped has exactly one once its worker is past the
\* put; a dropped job has none; every result on the queue is the page of the
\* job it was put for.
C18_ZeroOrOneResult ==
    /\ \A j \in RealJobs : emitted[j] <= 1
    /\ \A j \in dropped : emitted[j] = 0
    /\ \A j \in RealJobs :
          (/\ consumed[j] = 1
           /\ j \notin dropped
           /\ ~ \E w \in Workers : uri[w] = j /\ pc[w] = "put")
          => emitted[j] = 1
    /\ \A i \in 1 .. Len(result_queue) :
          /\ result_src[i] \notin dropped
          /\ result_queue[i] = (result_src[i].output :> PageOf(result_src[i]))

\* one job was dropped after a worker had put the result of another
C18_Witness ==
    \E j, k \in RealJobs :
        /\ j \in dropped
        /\ consumed[j] = 1
        /\ emitted[k] = 1
        /\ \E w \in Workers : uri[w] = j /\ wdata[w] # EmptyDict

\* C20: after the pass every record belongs to an index entry whose job put
\* a non-empty detail that was merged, and an index entry whose job was
\* dropped, or whose job put the empty detail, has no record; the pass itself
\* ends normally.
C20_RecordsFromMergedDetails ==
    /\ ppc # "raised"
    /\ ppc = "done" =>
          /\ \A i \in DOMAIN pkg_db :
                LET pair == <<pkg_db[i].realname, pkg_db[i].realversion>> IN
                /\ pair \in index
                /\ emitted[PkgJob(pair)] = 1
                /\ merged[PkgJob(pair)] = 1
                /\ PageOf(PkgJob(pair)) # EmptyDetail
          /\ \A pair \in index :
                (\/ PkgJob(pair) \in dropped
                 \/ PageOf(PkgJob(pair)) = EmptyDetail)
                => RecordsOf(pair) = {}

\* the identity under which a record is handed to add_package
Identity(rec) == <<rec.category, rec.package, rec.version>>

\* C21: after the pass, two records that come from different index entries
\* have different identities (category, filtered name, kept or pseudo
\* version).
C21_DistinctIdentities ==
    ppc = "done" => \A i, k \in DOMAIN pkg_db :
        <<pkg_db[i].realname, pkg_db[i].realversion>>
            # <<pkg_db[k].realname, pkg_db[k].realversion>>
        => Identity(pkg_db[i]) # Identity(pkg_db[k])

====
